---- MODULE Spec2Model ----
(***************************************************************************)
(* Student management backend (src/main.py): the relational store          *)
(* (students, academic_details, documents), the upload directory, and the  *)
(* request handlers that work on them.  Every handler runs in its own      *)
(* database session (get_db); the store variables hold the COMMITTED       *)
(* state of the database, a handler's pending work lives in its request    *)
(* record until the step that models its db.commit().  The steps of        *)
(* different requests interleave at database round trips and file-system   *)
(* calls, as they do between worker processes sharing one PostgreSQL.      *)
(***************************************************************************)
EXTENDS Integers, Sequences, FiniteSets, TLC

VARIABLES
    students,           \* rows of table "students"
    academic_details,   \* rows of table "academic_details"
    documents,          \* rows of table "documents"
    files,              \* paths present under UPLOAD_DIR
    next_student_id,    \* sequence behind students.id
    next_academic_id,   \* sequence behind academic_details.id
    next_document_id,   \* sequence behind documents.id
    now,                \* the database clock, func.now()
    reqs,               \* one record per request in flight
    deleted_students,   \* history: ids whose delete_student succeeded
    deleted_documents,  \* history: ids of the documents those students owned
    listing             \* a client paging through get_students / search_students

vars == <<students, academic_details, documents, files, next_student_id,
          next_academic_id, next_document_id, now, reqs, deleted_students,
          deleted_documents, listing>>

store == <<students, academic_details, documents, files>>

-----------------------------------------------------------------------------
(* Bounds of the model *)

MaxStudents == 2    \* create_student calls admitted while fewer ids were issued
MaxDocuments == 2   \* document ids issued

\* the requests in flight at once: every race of the handlers is a race of two
Reqs == {"r1", "r2"}
StudentIds == 1..MaxStudents
\* the student whose documents the upload and download requests address
UploadStudentIds == {1}
DocumentIds == 1..MaxDocuments

-----------------------------------------------------------------------------
(* Strings whose characters matter (ILIKE) are sequences of characters *)

LowerChar(c) ==
    CASE c = "I" -> "i" [] c = "T" -> "t" [] c = "D" -> "d" [] c = "U" -> "u"
      [] c = "C" -> "c" [] c = "S" -> "s" [] c = "E" -> "e"
      [] OTHER -> c

Lower(s) == [i \in 1..Len(s) |-> LowerChar(s[i])]

IIT_D == <<"I", "I", "T", " ", "D">>
DU == <<"D", "U">>
CS == <<"C", "S">>
ECE == <<"E", "C", "E">>

-----------------------------------------------------------------------------
(* Inputs *)

Null == "<null>"        \* JSON null / Python None
NoFile == <<"<nofile>">>    \* optional upload part not sent

\* file names, character by character
CV_PDF == <<"c", "v", ".", "p", "d", "f">>
ID_PNG == <<"i", "d", ".", "p", "n", "g">>
\* a name that repeats the pattern of another student's resume path
RESUME_OF_2 == <<"2", "_", "r", "e", "s", "u", "m", "e", "_", "c", "v", ".", "p", "d", "f">>

\* StudentCreate payloads (StudentBase + academic_details: AcademicDetailsBase)
StudentInputs ==
    { [name |-> "Rahul", email |-> "a@x.com", phone |-> "p1", gender |-> "Male",
       academic_details |-> [college_name |-> IIT_D, department |-> CS,
                             graduation_year |-> 2024, cgpa |-> 85, backlogs |-> 1]] }

\* StudentUpdate payloads: a field is in the record iff the request body set it
Patches ==
    { [email |-> "A@x.com"],
      [email |-> "A@x.com",
       academic_details |-> [college_name |-> DU, department |-> ECE,
                             graduation_year |-> 2025, cgpa |-> 70]] }

\* multipart bodies of upload_documents: resume is required, id_proof optional
Uploads ==
    { [resume |-> CV_PDF, id_proof |-> ID_PNG] }

-----------------------------------------------------------------------------
(* Responses: the HTTP status and detail the handler (or FastAPI) produces *)

Ok == [status |-> 200, detail |-> "ok"]
EmailAlreadyRegistered == [status |-> 400, detail |-> "Email already registered"]
StudentNotFound == [status |-> 404, detail |-> "Student not found"]
DocumentNotFound == [status |-> 404, detail |-> "Document not found"]
FileNotFound == [status |-> 404, detail |-> "File not found on server"]
\* exceptions no handler catches: FastAPI answers 500
UniqueViolation == [status |-> 500, detail |-> "IntegrityError: unique"]
ForeignKeyViolation == [status |-> 500, detail |-> "IntegrityError: foreign key"]
NotNullViolation == [status |-> 500, detail |-> "IntegrityError: not null"]
StaleData == [status |-> 500, detail |-> "row no longer exists"]
StorageUnavailable == [status |-> 500, detail |-> "OperationalError"]
FileRemoveFailed == [status |-> 500, detail |-> "FileNotFoundError"]
NoResponse == [status |-> 0, detail |-> "none"]

\* the responses of get_students and search_students: the ids of the
\* StudentResponse objects of the body, in the order of the body
PageOk(ids) == [status |-> 200, detail |-> "ok", body |-> ids]
PageRejected == [status |-> 422, detail |-> "validation error", body |-> <<>>]
NoPage == [status |-> 0, detail |-> "none", body |-> <<>>]
NoListing == [op |-> "none", params |-> <<>>, first |-> NoPage, second |-> NoPage]

-----------------------------------------------------------------------------
(* Request records *)

Idle == [op |-> "idle", pc |-> "idle", sid |-> 0, data |-> <<>>, snap |-> <<>>,
         outcome |-> NoResponse, effect |-> FALSE]

\* the handler returns or raises: the response is fixed
Finish(q, response, changed) ==
    [q EXCEPT !.pc = "done", !.snap = <<>>, !.outcome = response,
              !.effect = q.effect \/ changed]

-----------------------------------------------------------------------------
(* Queries on the committed state *)

InFlight(pcs) == Cardinality({r \in Reqs : reqs[r].pc \in pcs})

StudentRows(student_id) == {s \in students : s.id = student_id}
AcademicRows(student_id) == {a \in academic_details : a.student_id = student_id}
DocumentRows(student_id) == {d \in documents : d.student_id = student_id}

\* mutant of EmailRegistered: the pre-check finds nothing
EmailRegistered_NoPreCheck(email) == FALSE

\* db.query(Student).filter(Student.email == student.email).first()
EmailRegistered(email) == \E s \in students : s.email = email

\* mutant of EmailUnique: the column is declared without unique=True
EmailUnique_NoIndex(rows) == TRUE

\* the unique index on students.email, checked by the INSERT / UPDATE
EmailUnique(rows) == \A s, t \in rows : s.email = t.email => s.id = t.id

\* mutant of ParentExists: student_id is declared without ForeignKey
ParentExists_NoForeignKey(student_id) == TRUE

\* the foreign key of a child row, checked by the INSERT
ParentExists(student_id) == StudentRows(student_id) # {}

\* mutant of AcademicDetailsBase: backlogs has no default
AcademicDetailsBase_NoDefault(d) == d

\* AcademicDetailsBase: backlogs defaults to 0
AcademicDetailsBase(d) ==
    IF "backlogs" \in DOMAIN d THEN d ELSE d @@ [backlogs |-> 0]

-----------------------------------------------------------------------------
(* create_student *)

\* mutant of NewStudentId: the id is computed from the rows present
NewStudentId_MaxPlusOne ==
    IF students = {} THEN 1
    ELSE 1 + (CHOOSE m \in {s.id : s \in students} : \A s \in students : s.id <= m)

\* students.id: Integer primary key, drawn from the table's sequence
NewStudentId == next_student_id

\* lines 274-277: the pre-check query
create_student(r, student) ==
    /\ reqs[r].pc = "idle"
    /\ next_student_id + InFlight({"create_commit_student"}) <= MaxStudents
    /\ reqs' = [reqs EXCEPT ![r] =
          IF EmailRegistered(student.email)
          THEN Finish([Idle EXCEPT !.op = "create", !.data = <<student>>],
                      EmailAlreadyRegistered, FALSE)
          ELSE [Idle EXCEPT !.op = "create", !.pc = "create_commit_student",
                            !.data = <<student>>]]
    /\ UNCHANGED <<store, next_student_id, next_academic_id, next_document_id, now,
                   deleted_students, deleted_documents, listing>>

\* lines 279-288: INSERT INTO students, first db.commit()
create_student_commit_student(r) ==
    LET q == reqs[r]
        student == q.data[1]
        row == [id |-> NewStudentId, name |-> student.name, email |-> student.email,
                phone |-> student.phone, gender |-> student.gender,
                created_at |-> now]
    IN  /\ q.pc = "create_commit_student"
        /\ IF EmailUnique(students \cup {row})
           THEN /\ students' = students \cup {row}
                /\ next_student_id' = next_student_id + 1
                /\ now' = now + 1
                /\ reqs' = [reqs EXCEPT ![r] =
                       [q EXCEPT !.pc = "create_commit_academic", !.sid = row.id,
                                 !.effect = TRUE]]
           ELSE /\ reqs' = [reqs EXCEPT ![r] = Finish(q, UniqueViolation, FALSE)]
                /\ UNCHANGED <<students, next_student_id, now>>
        /\ UNCHANGED <<academic_details, documents, files, next_academic_id,
                       next_document_id, deleted_students, deleted_documents,
                       listing>>

\* lines 290-303: INSERT INTO academic_details, second db.commit()
create_student_commit_academic(r) ==
    LET q == reqs[r]
        academic == AcademicDetailsBase(q.data[1].academic_details)
        row == [id |-> next_academic_id, student_id |-> q.sid,
                college_name |-> academic.college_name,
                department |-> academic.department,
                graduation_year |-> academic.graduation_year,
                cgpa |-> academic.cgpa, backlogs |-> academic.backlogs]
    IN  /\ q.pc = "create_commit_academic"
        /\ IF ParentExists(q.sid)
           THEN /\ academic_details' = academic_details \cup {row}
                /\ next_academic_id' = next_academic_id + 1
                /\ reqs' = [reqs EXCEPT ![r] = Finish(q, Ok, TRUE)]
           ELSE /\ reqs' = [reqs EXCEPT ![r] = Finish(q, ForeignKeyViolation, FALSE)]
                /\ UNCHANGED <<academic_details, next_academic_id>>
        /\ UNCHANGED <<students, documents, files, next_student_id, next_document_id,
                       now, deleted_students, deleted_documents, listing>>

-----------------------------------------------------------------------------
(* get_student *)

\* lines 365-368
get_student(r, student_id) ==
    /\ reqs[r].pc = "idle"
    /\ reqs' = [reqs EXCEPT ![r] =
          Finish([Idle EXCEPT !.op = "get", !.sid = student_id],
                 IF StudentRows(student_id) = {} THEN StudentNotFound ELSE Ok, FALSE)]
    /\ UNCHANGED <<store, next_student_id, next_academic_id, next_document_id, now,
                   deleted_students, deleted_documents, listing>>

-----------------------------------------------------------------------------
(* update_student *)

\* the columns of students declared nullable=False that a patch can name
NotNullColumns == {"name", "email", "phone", "gender"}

\* the fields StudentUpdate declares; the model ignores any other key of the body
StudentUpdate == {"name", "email", "phone", "gender", "academic_details"}

\* mutant of update_data: keys of the body that StudentUpdate does not declare
\* are kept
update_data_KeepsExtraFields(patch) == DOMAIN patch \ {"academic_details"}

\* mutant of update_data: the student fields are skipped when the patch carries
\* academic details
update_data_SkippedWithAcademic(patch) ==
    IF "academic_details" \in DOMAIN patch THEN {}
    ELSE (DOMAIN patch \cap StudentUpdate) \ {"academic_details"}

\* student_update.dict(exclude_unset=True, exclude={"academic_details"})
update_data(patch) == (DOMAIN patch \cap StudentUpdate) \ {"academic_details"}

\* if student_update.academic_details:
HasAcademic(patch) == "academic_details" \in DOMAIN patch

\* setattr(obj, field, value) for every field of `fields`; the UPDATE the flush
\* emits sets the columns whose value differs from the one that was loaded
NetChanges(loaded, values, fields) == {f \in fields : values[f] # loaded[f]}

\* mutant of SetAttrs: a name, phone or gender the patch omits is set to null
SetAttrs_OmittedSetToNull(row, values, fields) ==
    [f \in DOMAIN row |-> IF f \in fields THEN values[f]
                          ELSE IF f \in {"name", "phone", "gender"} THEN Null
                          ELSE row[f]]

SetAttrs(row, values, fields) ==
    [f \in DOMAIN row |-> IF f \in fields THEN values[f] ELSE row[f]]

\* what the session keeps of the row `.first()` returned after the setattr loop:
\* the columns to write
Loaded(rows, values, fields) ==
    LET row == CHOOSE x \in rows : TRUE IN NetChanges(row, values, fields)

\* lines 378-385: the student is loaded, its fields are set in the session
update_student(r, student_id, patch) ==
    /\ reqs[r].pc = "idle"
    /\ reqs' = [reqs EXCEPT ![r] =
          LET q == [Idle EXCEPT !.op = "update", !.sid = student_id,
                                !.data = <<patch>>]
          IN  IF StudentRows(student_id) = {}
              THEN Finish(q, StudentNotFound, FALSE)
              ELSE [q EXCEPT !.pc = IF HasAcademic(patch)
                                    THEN "update_query_academic"
                                    ELSE "update_commit",
                             !.snap = <<Loaded(StudentRows(student_id), patch,
                                               update_data(patch)), {}, {}>>]]
    /\ UNCHANGED <<store, next_student_id, next_academic_id, next_document_id, now,
                   deleted_students, deleted_documents, listing>>

\* lines 387-393: .first() of the student's academic rows, in no stated order
update_student_query_academic(r) ==
    LET q == reqs[r]
        rows == AcademicRows(q.sid)
        academic == AcademicDetailsBase(q.data[1].academic_details)
    IN  /\ q.pc = "update_query_academic"
        /\ \E first \in (IF rows = {} THEN {{}} ELSE {{a} : a \in rows}) :
              reqs' = [reqs EXCEPT ![r] =
                  [q EXCEPT !.pc = "update_commit",
                            !.snap = <<q.snap[1], {a.id : a \in first},
                                       UNION {NetChanges(a, academic, DOMAIN academic)
                                                : a \in first}>>]]
        /\ UNCHANGED <<store, next_student_id, next_academic_id, next_document_id,
                       now, deleted_students, deleted_documents, listing>>

\* mutant of update_student_commit: academic details in the patch are inserted
\* as a new row of the student
update_student_commit_InsertsAcademic(r) ==
    LET q == reqs[r]
        patch == q.data[1]
        changes == q.snap[1]
        current == StudentRows(q.sid)
        new_students == (students \ current)
                            \cup {SetAttrs(s, patch, changes) : s \in current}
        academic == IF HasAcademic(patch)
                    THEN AcademicDetailsBase(patch.academic_details)
                    ELSE <<>>
        inserted == IF HasAcademic(patch)
                    THEN {[id |-> next_academic_id, student_id |-> q.sid,
                           college_name |-> academic.college_name,
                           department |-> academic.department,
                           graduation_year |-> academic.graduation_year,
                           cgpa |-> academic.cgpa, backlogs |-> academic.backlogs]}
                    ELSE {}
    IN  /\ q.pc = "update_commit"
        /\ IF current = {}
           THEN /\ reqs' = [reqs EXCEPT ![r] = Finish(q, StaleData, FALSE)]
                /\ UNCHANGED <<students, academic_details, next_academic_id>>
           ELSE IF \E f \in changes \cap NotNullColumns : patch[f] = Null
           THEN /\ reqs' = [reqs EXCEPT ![r] = Finish(q, NotNullViolation, FALSE)]
                /\ UNCHANGED <<students, academic_details, next_academic_id>>
           ELSE IF ~EmailUnique(new_students)
           THEN /\ reqs' = [reqs EXCEPT ![r] = Finish(q, UniqueViolation, FALSE)]
                /\ UNCHANGED <<students, academic_details, next_academic_id>>
           ELSE /\ students' = new_students
                /\ academic_details' = academic_details \cup inserted
                /\ next_academic_id' = next_academic_id + Cardinality(inserted)
                /\ reqs' = [reqs EXCEPT ![r] = Finish(q, Ok, TRUE)]
        /\ UNCHANGED <<documents, files, next_student_id, next_document_id, now,
                       deleted_students, deleted_documents, listing>>

\* lines 395-397: the flush (UPDATE students, UPDATE academic_details), db.commit(),
\* db.refresh(student)
update_student_commit(r) ==
    LET q == reqs[r]
        patch == q.data[1]
        changes == q.snap[1]
        current == StudentRows(q.sid)
        new_students == (students \ current)
                            \cup {SetAttrs(s, patch, changes) : s \in current}
        academic == IF HasAcademic(patch)
                    THEN AcademicDetailsBase(patch.academic_details)
                    ELSE <<>>
        targets == {a \in academic_details : a.id \in q.snap[2]}
        new_academic == (academic_details \ targets)
                            \cup {SetAttrs(a, academic, q.snap[3]) : a \in targets}
    IN  /\ q.pc = "update_commit"
        /\ IF current = {}
           THEN /\ reqs' = [reqs EXCEPT ![r] = Finish(q, StaleData, FALSE)]
                /\ UNCHANGED <<students, academic_details>>
           ELSE IF \E f \in changes \cap NotNullColumns : patch[f] = Null
           THEN /\ reqs' = [reqs EXCEPT ![r] = Finish(q, NotNullViolation, FALSE)]
                /\ UNCHANGED <<students, academic_details>>
           ELSE IF ~EmailUnique(new_students)
           THEN /\ reqs' = [reqs EXCEPT ![r] = Finish(q, UniqueViolation, FALSE)]
                /\ UNCHANGED <<students, academic_details>>
           ELSE /\ students' = new_students
                /\ academic_details' = new_academic
                /\ reqs' = [reqs EXCEPT ![r] =
                       Finish(q, Ok, new_students # students
                                     \/ new_academic # academic_details)]
        /\ UNCHANGED <<documents, files, next_student_id, next_academic_id,
                       next_document_id, now, deleted_students, deleted_documents,
                       listing>>

-----------------------------------------------------------------------------
(* delete_student *)

\* lines 406-408
delete_student(r, student_id) ==
    /\ reqs[r].pc = "idle"
    /\ reqs' = [reqs EXCEPT ![r] =
          LET q == [Idle EXCEPT !.op = "delete", !.sid = student_id]
          IN  IF StudentRows(student_id) = {}
              THEN Finish(q, StudentNotFound, FALSE)
              ELSE [q EXCEPT !.pc = "delete_files"]]
    /\ UNCHANGED <<store, next_student_id, next_academic_id, next_document_id, now,
                   deleted_students, deleted_documents, listing>>

\* line 415, db.delete(student): student.academic_details is loaded for the
\* cascade; the request stands before its db.commit()
DeleteMarked(q, ids) ==
    [q EXCEPT !.pc = "delete_commit",
              !.snap = <<ids, {a.id : a \in AcademicRows(q.sid)}>>]

\* lines 411-412: the loop head. The first visit loads student.documents; each
\* visit takes the next document and asks os.path.exists for its file; after the
\* last document the handler goes on to db.delete(student)
delete_student_files(r) ==
    LET q == reqs[r]
        loaded == DocumentRows(q.sid)
        ids == IF q.snap = <<>> THEN {d.id : d \in loaded} ELSE q.snap[1]
        paths == IF q.snap = <<>> THEN {d.file_path : d \in loaded} ELSE q.snap[2]
    IN  /\ q.pc = "delete_files"
        /\ IF paths = {}
           THEN reqs' = [reqs EXCEPT ![r] = DeleteMarked(q, ids)]
           ELSE \E path \in paths :
                   reqs' = [reqs EXCEPT ![r] =
                       IF path \in files
                       THEN [q EXCEPT !.pc = "delete_remove",
                                      !.snap = <<ids, paths \ {path}, path>>]
                       ELSE IF paths = {path} THEN DeleteMarked(q, ids)
                       ELSE [q EXCEPT !.snap = <<ids, paths \ {path}>>]]
        /\ UNCHANGED <<store, next_student_id, next_academic_id, next_document_id,
                       now, deleted_students, deleted_documents, listing>>

\* line 413: os.remove(doc.file_path) of the file os.path.exists has just seen;
\* it raises FileNotFoundError when the file has been removed since
delete_student_remove(r) ==
    LET q == reqs[r]
        path == q.snap[3]
    IN  /\ q.pc = "delete_remove"
        /\ IF path \in files
           THEN /\ files' = files \ {path}
                /\ reqs' = [reqs EXCEPT ![r] =
                       IF q.snap[2] = {}
                       THEN [DeleteMarked(q, q.snap[1]) EXCEPT !.effect = TRUE]
                       ELSE [q EXCEPT !.pc = "delete_files",
                                      !.snap = <<q.snap[1], q.snap[2]>>,
                                      !.effect = TRUE]]
           ELSE /\ reqs' = [reqs EXCEPT ![r] = Finish(q, FileRemoveFailed, FALSE)]
                /\ UNCHANGED files
        /\ UNCHANGED <<students, academic_details, documents, next_student_id,
                       next_academic_id, next_document_id, now, deleted_students,
                       deleted_documents, listing>>

\* lines 416-417: db.commit(): the cascade deletes the loaded documents and
\* academic rows, then the student; a child row the session never loaded still
\* references the student and the DELETE is refused
delete_student_commit(r) ==
    LET q == reqs[r]
        loaded == q.snap[1]
        gone_documents == {d \in DocumentRows(q.sid) : d.id \in loaded}
        left_documents == DocumentRows(q.sid) \ gone_documents
        gone_academic == {a \in AcademicRows(q.sid) : a.id \in q.snap[2]}
        left_academic == AcademicRows(q.sid) \ gone_academic
    IN  /\ q.pc = "delete_commit"
        /\ IF left_documents # {} \/ left_academic # {}
           THEN /\ reqs' = [reqs EXCEPT ![r] = Finish(q, ForeignKeyViolation, FALSE)]
                /\ UNCHANGED <<students, academic_details, documents,
                               deleted_students, deleted_documents>>
           ELSE /\ students' = students \ StudentRows(q.sid)
                /\ academic_details' = academic_details \ gone_academic
                /\ documents' = documents \ gone_documents
                /\ deleted_students' = deleted_students \cup {q.sid}
                /\ deleted_documents' = deleted_documents \cup loaded
                /\ reqs' = [reqs EXCEPT ![r] = Finish(q, Ok, StudentRows(q.sid) # {})]
        /\ UNCHANGED <<files, next_student_id, next_academic_id, next_document_id,
                       now, listing>>

-----------------------------------------------------------------------------
(* upload_documents, download_document *)

Digit(d) == <<"0", "1", "2", "3", "4", "5", "6", "7", "8", "9">>[d + 1]

\* str(n) of a student id, as the f-string formats it
RECURSIVE Digits(_)
Digits(n) == IF n < 10 THEN <<Digit(n)>> ELSE Append(Digits(n \div 10), Digit(n % 10))

\* f"student_{student_id}_" : the head of every file name of a student
StudentPrefix(student_id) ==
    <<"s", "t", "u", "d", "e", "n", "t", "_">> \o Digits(student_id) \o <<"_">>

RESUME == <<"r", "e", "s", "u", "m", "e">>
ID == <<"i", "d">>

\* mutant of UploadPath: the file name does not carry the student id
UploadPath_NoStudentId(student_id, kind, filename) == kind \o <<"_">> \o filename

\* os.path.join(UPLOAD_DIR, f"student_{student_id}_{kind}_{filename}")
UploadPath(student_id, kind, filename) ==
    StudentPrefix(student_id) \o kind \o <<"_">> \o filename

FilesOf(upload) == IF upload.id_proof # NoFile THEN 2 ELSE 1

\* documents the uploads in flight will insert
InFlightDocuments ==
    LET n[S \in SUBSET Reqs] ==
            IF S = {} THEN 0
            ELSE LET r == CHOOSE x \in S : TRUE
                 IN  n[S \ {r}] + (IF reqs[r].op = "upload" /\ reqs[r].pc # "done"
                                    THEN FilesOf(reqs[r].data[1]) ELSE 0)
    IN  n[Reqs]

\* lines 431-435
upload_documents(r, student_id, upload) ==
    /\ reqs[r].pc = "idle"
    /\ next_document_id + InFlightDocuments + FilesOf(upload) - 1 <= MaxDocuments
    /\ reqs' = [reqs EXCEPT ![r] =
          LET q == [Idle EXCEPT !.op = "upload", !.sid = student_id,
                                !.data = <<upload>>, !.snap = <<{}>>]
          IN  IF StudentRows(student_id) = {}
              THEN Finish(q, StudentNotFound, FALSE)
              ELSE [q EXCEPT !.pc = "upload_resume"]]
    /\ UNCHANGED <<store, next_student_id, next_academic_id, next_document_id, now,
                   deleted_students, deleted_documents, listing>>

\* lines 437-450: the resume is written to disk, its row is added to the session
upload_documents_resume(r) ==
    LET q == reqs[r]
        path == UploadPath(q.sid, RESUME, q.data[1].resume)
    IN  /\ q.pc = "upload_resume"
        /\ files' = files \cup {path}
        /\ reqs' = [reqs EXCEPT ![r] =
               [q EXCEPT !.pc = IF q.data[1].id_proof # NoFile
                                THEN "upload_id_proof" ELSE "upload_commit",
                         !.snap = <<{[doc_type |-> "resume", file_path |-> path]}>>,
                         !.effect = TRUE]]
        /\ UNCHANGED <<students, academic_details, documents, next_student_id,
                       next_academic_id, next_document_id, now, deleted_students,
                       deleted_documents, listing>>

\* lines 452-465: the same for the id proof
upload_documents_id_proof(r) ==
    LET q == reqs[r]
        path == UploadPath(q.sid, ID, q.data[1].id_proof)
    IN  /\ q.pc = "upload_id_proof"
        /\ files' = files \cup {path}
        /\ reqs' = [reqs EXCEPT ![r] =
               [q EXCEPT !.pc = "upload_commit",
                         !.snap = <<q.snap[1] \cup
                                     {[doc_type |-> "id_proof", file_path |-> path]}>>]]
        /\ UNCHANGED <<students, academic_details, documents, next_student_id,
                       next_academic_id, next_document_id, now, deleted_students,
                       deleted_documents, listing>>

\* the ids the INSERTs of one flush draw: the resume first
DocumentId(pending) == IF pending.doc_type = "resume"
                       THEN next_document_id ELSE next_document_id + 1

\* mutant of upload_documents_commit: a new document replaces the student's
\* documents of its type
upload_documents_commit_OnePerType(r) ==
    LET q == reqs[r]
        rows == {[id |-> DocumentId(p), student_id |-> q.sid, doc_type |-> p.doc_type,
                  file_path |-> p.file_path, uploaded_at |-> now] : p \in q.snap[1]}
        replaced == {d \in DocumentRows(q.sid) :
                        \E n \in rows : n.doc_type = d.doc_type}
    IN  /\ q.pc = "upload_commit"
        /\ IF ParentExists(q.sid)
           THEN /\ documents' = (documents \ replaced) \cup rows
                /\ next_document_id' = next_document_id + Cardinality(rows)
                /\ reqs' = [reqs EXCEPT ![r] = Finish(q, Ok, TRUE)]
           ELSE /\ reqs' = [reqs EXCEPT ![r] = Finish(q, ForeignKeyViolation, FALSE)]
                /\ UNCHANGED <<documents, next_document_id>>
        /\ UNCHANGED <<students, academic_details, files, next_student_id,
                       next_academic_id, now, deleted_students, deleted_documents,
                       listing>>

\* lines 467-468: INSERT INTO documents for every pending row, db.commit()
upload_documents_commit(r) ==
    LET q == reqs[r]
        rows == {[id |-> DocumentId(p), student_id |-> q.sid, doc_type |-> p.doc_type,
                  file_path |-> p.file_path, uploaded_at |-> now] : p \in q.snap[1]}
    IN  /\ q.pc = "upload_commit"
        /\ IF ParentExists(q.sid)
           THEN /\ documents' = documents \cup rows
                /\ next_document_id' = next_document_id + Cardinality(rows)
                /\ reqs' = [reqs EXCEPT ![r] = Finish(q, Ok, TRUE)]
           ELSE /\ reqs' = [reqs EXCEPT ![r] = Finish(q, ForeignKeyViolation, FALSE)]
                /\ UNCHANGED <<documents, next_document_id>>
        /\ UNCHANGED <<students, academic_details, files, next_student_id,
                       next_academic_id, now, deleted_students, deleted_documents,
                       listing>>

\* mutant of download_document: the query does not filter on student_id
download_document_AnyOwner(r, student_id, doc_id) ==
    LET found == {d \in documents : d.id = doc_id}
    IN  /\ reqs[r].pc = "idle"
        /\ reqs' = [reqs EXCEPT ![r] =
              Finish([Idle EXCEPT !.op = "download", !.sid = student_id,
                                  !.data = <<doc_id>>],
                     IF found = {} THEN DocumentNotFound
                     ELSE IF \E d \in found : d.file_path \notin files
                          THEN FileNotFound ELSE Ok,
                     FALSE)]
        /\ UNCHANGED <<store, next_student_id, next_academic_id, next_document_id,
                       now, deleted_students, deleted_documents, listing>>

\* lines 479-493
download_document(r, student_id, doc_id) ==
    LET found == {d \in documents : d.id = doc_id /\ d.student_id = student_id}
    IN  /\ reqs[r].pc = "idle"
        /\ reqs' = [reqs EXCEPT ![r] =
              Finish([Idle EXCEPT !.op = "download", !.sid = student_id,
                                  !.data = <<doc_id>>],
                     IF found = {} THEN DocumentNotFound
                     ELSE IF \E d \in found : d.file_path \notin files
                          THEN FileNotFound ELSE Ok,
                     FALSE)]
        /\ UNCHANGED <<store, next_student_id, next_academic_id, next_document_id,
                       now, deleted_students, deleted_documents, listing>>

-----------------------------------------------------------------------------
(* every handler *)

CommitPcs == {"create_commit_student", "create_commit_academic", "update_commit",
              "delete_commit", "upload_commit"}

\* db.commit() raises because the database cannot be reached (or the worker
\* dies there): nothing of this commit is written, what was committed or
\* written to disk before stays
commit_fails(r) ==
    /\ reqs[r].pc \in CommitPcs
    /\ reqs' = [reqs EXCEPT ![r] = Finish(reqs[r], StorageUnavailable, FALSE)]
    /\ UNCHANGED <<store, next_student_id, next_academic_id, next_document_id, now,
                   deleted_students, deleted_documents, listing>>

\* get_db: the response is sent, finally: db.close()
get_db_close(r) ==
    /\ reqs[r].pc = "done"
    /\ reqs' = [reqs EXCEPT ![r] = Idle]
    /\ UNCHANGED <<store, next_student_id, next_academic_id, next_document_id, now,
                   deleted_students, deleted_documents, listing>>

-----------------------------------------------------------------------------
(* get_students, search_students *)

MaxLimit == 100     \* limit: int = Query(10, ge=1, le=100)
DefaultLimit == 10
DefaultSkip == 0
MinLimit == 1
MinSkip == 0

\* a query parameter that was not sent takes its default
Param(params, name, default) ==
    IF name \in DOMAIN params THEN params[name] ELSE default

\* mutant of ValidPagination: le=100 is missing
ValidPagination_NoUpperBound(skip, limit) ==
    skip >= MinSkip /\ limit >= MinLimit

\* skip: Query(0, ge=0), limit: Query(10, ge=1, le=100); FastAPI answers 422 and
\* does not call the handler when a constraint fails
ValidPagination(skip, limit) ==
    skip >= MinSkip /\ limit >= MinLimit /\ limit <= MaxLimit

\* the rows of a SELECT without ORDER BY come in an order the database chooses
Orderings(S) ==
    LET n == Cardinality(S)
    IN  {f \in [1..n -> S] : \A i, j \in 1..n : i # j => f[i] # f[j]}

\* .offset(skip).limit(limit)
OffsetLimit(rows, skip, limit) ==
    LET last == IF skip + limit < Len(rows) THEN skip + limit ELSE Len(rows)
    IN  [i \in 1..(IF last > skip THEN last - skip ELSE 0) |-> rows[skip + i]]

\* the ORM returns each Student entity once, in the order of its first row
RECURSIVE Unique(_)
Unique(ids) ==
    IF ids = <<>> THEN <<>>
    ELSE LET rest == Unique([i \in 1..(Len(ids) - 1) |-> ids[i]])
             last == ids[Len(ids)]
         IN  IF \E i \in 1..Len(rest) : rest[i] = last THEN rest
             ELSE Append(rest, last)

\* lines 314-320: db.query(Student).options(joinedload...).offset(skip).limit(limit)
GetStudentsPages(skip, limit) ==
    {PageOk(OffsetLimit(order, skip, limit)) : order \in Orderings({s.id : s \in students})}

\* pattern LIKE text: % is any run of characters, _ any one character
RECURSIVE LikeMatch(_, _)
LikeMatch(pattern, text) ==
    IF pattern = <<>> THEN text = <<>>
    ELSE IF Head(pattern) = "%"
         THEN \/ LikeMatch(Tail(pattern), text)
              \/ (text # <<>> /\ LikeMatch(pattern, Tail(text)))
    ELSE /\ text # <<>>
         /\ (Head(pattern) = "_" \/ Head(pattern) = Head(text))
         /\ LikeMatch(Tail(pattern), Tail(text))

\* column.ilike(f"%{value}%")
ILikeContains(column, value) ==
    LikeMatch(<<"%">> \o Lower(value) \o <<"%">>, Lower(column))

\* mutant of Filtered: the college filter is never applied
Filtered_NoCollegeFilter(a, params) ==
    /\ ("year" \in DOMAIN params /\ params.year # 0)
          => a.graduation_year = params.year
    /\ ("department" \in DOMAIN params /\ params.department # <<>>)
          => ILikeContains(a.department, params.department)

\* lines 344-350: a filter is applied when its parameter is truthy
Filtered(a, params) ==
    /\ ("college" \in DOMAIN params /\ params.college # <<>>)
          => ILikeContains(a.college_name, params.college)
    /\ ("year" \in DOMAIN params /\ params.year # 0)
          => a.graduation_year = params.year
    /\ ("department" \in DOMAIN params /\ params.department # <<>>)
          => ILikeContains(a.department, params.department)

\* lines 338-354: db.query(Student).join(AcademicDetails) ... .offset(skip).limit(limit):
\* one row per (student, academic row) pair of the join that passes the filters
SearchStudentsPages(params, skip, limit) ==
    LET joined == {<<s.id, a.id>> : s \in students,
                     a \in {x \in academic_details : Filtered(x, params)}}
        rows == {p \in joined : \E a \in academic_details :
                                  a.id = p[2] /\ a.student_id = p[1]}
    IN  {PageOk(Unique([i \in 1..Len(page) |-> page[i][1]])) :
            page \in {OffsetLimit(order, skip, limit) : order \in Orderings(rows)}}

Pages(op, params, skip, limit) ==
    IF ~ValidPagination(skip, limit) THEN {PageRejected}
    ELSE IF op = "list" THEN GetStudentsPages(skip, limit)
    ELSE SearchStudentsPages(params, skip, limit)

\* lines 306-320: GET /students (the scenario follows one listing from its first
\* page)
get_students(params) ==
    /\ listing = NoListing
    /\ \E page \in Pages("list", params, Param(params, "skip", DefaultSkip),
                         Param(params, "limit", DefaultLimit)) :
          listing' = [op |-> "list", params |-> params, first |-> page,
                      second |-> NoPage]
    /\ UNCHANGED <<store, next_student_id, next_academic_id, next_document_id, now,
                   reqs, deleted_students, deleted_documents>>

\* lines 326-354: GET /students/search
search_students(params) ==
    /\ listing = NoListing
    /\ \E page \in Pages("search", params, Param(params, "skip", DefaultSkip),
                         Param(params, "limit", DefaultLimit)) :
          listing' = [op |-> "search", params |-> params, first |-> page,
                      second |-> NoPage]
    /\ UNCHANGED <<store, next_student_id, next_academic_id, next_document_id, now,
                   reqs, deleted_students, deleted_documents>>

\* the client asks for the page after the one it holds: the same handler, the same
\* filters and limit, skip advanced by limit
next_page ==
    LET skip == Param(listing.params, "skip", DefaultSkip)
        limit == Param(listing.params, "limit", DefaultLimit)
    IN  /\ listing.op \in {"list", "search"}
        /\ listing.first.status = 200
        /\ listing.second = NoPage
        /\ \E page \in Pages(listing.op, listing.params, skip + limit, limit) :
              listing' = [listing EXCEPT !.second = page]
        /\ UNCHANGED <<store, next_student_id, next_academic_id, next_document_id,
                       now, reqs, deleted_students, deleted_documents>>

-----------------------------------------------------------------------------
(* The stores and requests of the query scenario *)

MaxListed == 3      \* students in the table

\* the college of the first student of create_dummy_data (line 525)
INDIAN_INSTITUTE_OF_TECHNOLOGY_DELHI ==
    <<"I", "n", "d", "i", "a", "n", " ", "I", "n", "s", "t", "i", "t", "u", "t", "e",
      " ", "o", "f", " ", "T", "e", "c", "h", "n", "o", "l", "o", "g", "y", " ",
      "D", "e", "l", "h", "i">>

IIT == <<"I", "I", "T">>

\* what create_student stored for a student, as far as the queries read it
ListedAcademics ==
    { [college_name |-> IIT_D, department |-> CS, graduation_year |-> 2024],
      [college_name |-> DU, department |-> ECE, graduation_year |-> 2025],
      [college_name |-> INDIAN_INSTITUTE_OF_TECHNOLOGY_DELHI, department |-> CS,
       graduation_year |-> 2024] }

OptionalParam(name, values) == {<<>>} \cup {[x \in {name} |-> v] : v \in values}

PageParams ==
    { <<>>, [skip |-> 0, limit |-> 1], [skip |-> 0, limit |-> 2],
      [skip |-> 1, limit |-> 1], [skip |-> 0, limit |-> 0],
      [skip |-> 0, limit |-> 100], [skip |-> 0, limit |-> 101],
      [skip |-> 0 - 1, limit |-> 1] }

SearchParams ==
    { c @@ y @@ d @@ p :
        c \in OptionalParam("college", {<<"i", "i", "t">>, <<"_">>, IIT}),
        y \in OptionalParam("year", {0, 2024}),
        d \in OptionalParam("department", {<<"c", "s">>}),
        p \in PageParams }

\* students 1..n, each with the academic row create_student gave it, or with none
\* (a create_student that stopped between its two commits)
InitQuery ==
    /\ \E n \in 0..MaxListed :
       \E given \in [1..n -> ListedAcademics \cup {<<>>}] :
          /\ students = {[id |-> i, name |-> "Rahul", email |-> <<"s", i>>,
                          phone |-> "p1", gender |-> "Male", created_at |-> i]
                           : i \in 1..n}
          /\ academic_details =
                {[id |-> i, student_id |-> i, college_name |-> given[i].college_name,
                  department |-> given[i].department,
                  graduation_year |-> given[i].graduation_year,
                  cgpa |-> 85, backlogs |-> 0] : i \in {j \in 1..n : given[j] # <<>>}}
          /\ next_student_id = n + 1
          /\ next_academic_id = n + 1
          /\ now = n + 1
    /\ documents = {}
    /\ files = {}
    /\ next_document_id = 1
    /\ reqs = [r \in Reqs |-> Idle]
    /\ deleted_students = {}
    /\ deleted_documents = {}
    /\ listing = NoListing

NextQuery ==
    \/ \E params \in PageParams : get_students(params)
    \/ \E params \in SearchParams : search_students(params)
    \/ next_page

SpecQuery == InitQuery /\ [][NextQuery]_vars

-----------------------------------------------------------------------------
(* The stores and requests of the update scenario *)

MaxUpdated == 2     \* students in the table

\* StudentUpdate bodies: a name alone, an explicit null, the email of student 2,
\* academic details without backlogs, keys the model does not declare
UpdatePatches ==
    { [name |-> "New Name"],
      [name |-> Null],
      [email |-> <<"s", 2>>],
      [phone |-> "p2",
       academic_details |-> [college_name |-> DU, department |-> ECE,
                             graduation_year |-> 2025, cgpa |-> 70]],
      [gender |-> "Female", id |-> 9, created_at |-> 99] }

\* students 1..n as create_student left them: with their academic row, or without
\* it (a create_student that stopped between its two commits)
InitUpdate ==
    /\ \E n \in 1..MaxUpdated :
       \E with \in SUBSET (1..n) :
          /\ students = {[id |-> i, name |-> "Rahul", email |-> <<"s", i>>,
                          phone |-> "p1", gender |-> "Male", created_at |-> i]
                           : i \in 1..n}
          /\ academic_details =
                {[id |-> i, student_id |-> i, college_name |-> IIT_D,
                  department |-> CS, graduation_year |-> 2024, cgpa |-> 85,
                  backlogs |-> 1] : i \in with}
          /\ next_student_id = n + 1
          /\ next_academic_id = n + 1
          /\ now = n + 1
    /\ documents = {}
    /\ files = {}
    /\ next_document_id = 1
    /\ reqs = [r \in Reqs |-> Idle]
    /\ deleted_students = {}
    /\ deleted_documents = {}
    /\ listing = NoListing

\* the student the update and delete requests of the scenario address
UpdatedStudentIds == {1}

NextUpdate ==
    \E r \in Reqs :
        \/ \E sid \in UpdatedStudentIds : \E patch \in UpdatePatches :
              update_student(r, sid, patch)
        \/ update_student_query_academic(r)
        \/ update_student_commit(r)
        \/ \E sid \in UpdatedStudentIds : delete_student(r, sid)
        \/ delete_student_files(r)
        \/ delete_student_remove(r)
        \/ delete_student_commit(r)
        \/ \E sid \in UploadStudentIds : \E upload \in Uploads :
              upload_documents(r, sid, upload)
        \/ upload_documents_resume(r)
        \/ upload_documents_id_proof(r)
        \/ upload_documents_commit(r)
        \/ commit_fails(r)
        \/ get_db_close(r)

SpecUpdate == InitUpdate /\ [][NextUpdate]_vars

-----------------------------------------------------------------------------
(* The stores and requests of the documents scenario *)

MaxOwners == 2      \* students in the table

\* multipart bodies: the resume alone, or with an id proof
DocumentUploads ==
    { [resume |-> CV_PDF, id_proof |-> NoFile],
      [resume |-> CV_PDF, id_proof |-> RESUME_OF_2] }

\* the students the upload and download requests of the scenario address
OwnerIds == {1, 2}

\* the student the update and delete requests of the scenario address
DeletedStudentIds == {1}

\* StudentUpdate bodies: the email of student 2, and academic details
OwnerPatches ==
    {patch \in UpdatePatches :
        "email" \in DOMAIN patch \/ "academic_details" \in DOMAIN patch}

\* students 1..n as create_student left them, no document uploaded yet
InitDocuments ==
    /\ \E n \in 1..MaxOwners :
          /\ students = {[id |-> i, name |-> "Rahul", email |-> <<"s", i>>,
                          phone |-> "p1", gender |-> "Male", created_at |-> i]
                           : i \in 1..n}
          /\ academic_details =
                {[id |-> i, student_id |-> i, college_name |-> IIT_D,
                  department |-> CS, graduation_year |-> 2024, cgpa |-> 85,
                  backlogs |-> 1] : i \in 1..n}
          /\ next_student_id = n + 1
          /\ next_academic_id = n + 1
          /\ now = n + 1
    /\ documents = {}
    /\ files = {}
    /\ next_document_id = 1
    /\ reqs = [r \in Reqs |-> Idle]
    /\ deleted_students = {}
    /\ deleted_documents = {}
    /\ listing = NoListing

NextDocuments ==
    \E r \in Reqs :
        \/ \E sid \in OwnerIds : \E upload \in DocumentUploads :
              upload_documents(r, sid, upload)
        \/ upload_documents_resume(r)
        \/ upload_documents_id_proof(r)
        \/ upload_documents_commit(r)
        \/ \E sid \in OwnerIds : \E doc \in DocumentIds :
              download_document(r, sid, doc)
        \/ \E sid \in DeletedStudentIds : \E patch \in OwnerPatches :
              update_student(r, sid, patch)
        \/ update_student_query_academic(r)
        \/ update_student_commit(r)
        \/ \E sid \in DeletedStudentIds : delete_student(r, sid)
        \/ delete_student_files(r)
        \/ delete_student_remove(r)
        \/ delete_student_commit(r)
        \/ commit_fails(r)
        \/ get_db_close(r)

SpecDocuments == InitDocuments /\ [][NextDocuments]_vars

-----------------------------------------------------------------------------

Init ==
    /\ students = {}
    /\ academic_details = {}
    /\ documents = {}
    /\ files = {}
    /\ next_student_id = 1
    /\ next_academic_id = 1
    /\ next_document_id = 1
    /\ now = 0
    /\ reqs = [r \in Reqs |-> Idle]
    /\ deleted_students = {}
    /\ deleted_documents = {}
    /\ listing = NoListing

Next ==
    \E r \in Reqs :
        \/ \E student \in StudentInputs : create_student(r, student)
        \/ create_student_commit_student(r)
        \/ create_student_commit_academic(r)
        \/ \E sid \in StudentIds : get_student(r, sid)
        \/ \E sid \in StudentIds : \E patch \in Patches : update_student(r, sid, patch)
        \/ update_student_query_academic(r)
        \/ update_student_commit(r)
        \/ \E sid \in StudentIds : delete_student(r, sid)
        \/ delete_student_files(r)
        \/ delete_student_remove(r)
        \/ delete_student_commit(r)
        \/ \E sid \in UploadStudentIds : \E upload \in Uploads : upload_documents(r, sid, upload)
        \/ upload_documents_resume(r)
        \/ upload_documents_id_proof(r)
        \/ upload_documents_commit(r)
        \/ \E sid \in UploadStudentIds : \E doc \in DocumentIds : download_document(r, sid, doc)
        \/ commit_fails(r)
        \/ get_db_close(r)

Spec == Init /\ [][Next]_vars

-----------------------------------------------------------------------------
(* Claims about the handlers under Spec *)

Failed(q) == q.pc = "done" /\ q.outcome.status # 200

\* C1: createStudent is atomic: in no committed state is a Student row present
\* without its initial AcademicDetail row.
C1_CreateStudentAtomic ==
    \A s \in students : \E a \in academic_details : a.student_id = s.id

\* C2: of the createStudent calls racing on one email, one succeeds and every
\* other one ends with DuplicateEmail and no other error kind (a call cut short by
\* a storage failure, or whose student was deleted under it, aside), and at most
\* one Student row carries the email.
C2_RacingCreatesObserveDuplicateEmail ==
    /\ \A s, t \in students : s.id # t.id => s.email # t.email
    /\ \A r \in Reqs :
          (/\ reqs[r].op = "create"
           /\ Failed(reqs[r])
           /\ reqs[r].outcome \notin {StorageUnavailable, ForeignKeyViolation})
              => reqs[r].outcome = EmailAlreadyRegistered

\* C3: createStudent with the email (exact, case-sensitive) of an existing Student
\* ends at once with DuplicateEmail and adds no Student and no AcademicDetail row.
C3_DuplicateEmailRejected ==
    [][\A r \in Reqs :
          (/\ reqs[r].pc = "idle"
           /\ reqs'[r].op = "create"
           /\ \E s \in students : s.email = reqs'[r].data[1].email)
              => /\ reqs'[r].pc = "done"
                 /\ reqs'[r].outcome = EmailAlreadyRegistered
                 /\ ~reqs'[r].effect
                 /\ students' = students
                 /\ academic_details' = academic_details]_vars

\* C3 witness: a create call was refused with DuplicateEmail while a Student with
\* its email exists
C3_Witness ==
    \E r \in Reqs :
        /\ reqs[r].op = "create"
        /\ reqs[r].pc = "done"
        /\ reqs[r].outcome = EmailAlreadyRegistered
        /\ \E s \in students : s.email = reqs[r].data[1].email

\* C4: no two Student rows ever have the same email, whatever createStudent,
\* updateStudent and deleteStudent calls interleave.
C4_EmailUniqueAcrossStudents ==
    \A s, t \in students : s.id # t.id => s.email # t.email

\* C4 witness: an updateStudent that set the email of another Student was refused
\* while both Students exist
C4_Witness ==
    /\ Cardinality(students) >= 2
    /\ \E r \in Reqs :
          /\ reqs[r].op = "update"
          /\ reqs[r].pc = "done"
          /\ reqs[r].outcome = UniqueViolation
          /\ \E s \in students : s.id # reqs[r].sid /\ s.email = reqs[r].data[1].email

\* C5: every AcademicDetail row and every Document row refers to an existing
\* Student row.
C5_NoOrphanedChildren ==
    /\ \A a \in academic_details : \E s \in students : s.id = a.student_id
    /\ \A d \in documents : \E s \in students : s.id = d.student_id

\* C5 witness: an upload lost the race against the delete of its student
C5_Witness ==
    /\ \E r \in Reqs :
          /\ reqs[r].op = "upload"
          /\ reqs[r].pc = "done"
          /\ reqs[r].outcome = ForeignKeyViolation
          /\ reqs[r].sid \in deleted_students

\* C6: once deleteStudent(id) has succeeded, the student's AcademicDetail and
\* Document rows are gone, every later getStudent(id) answers NotFound and every
\* later download of one of its documents answers NotFound; deleteStudent of an
\* id that does not exist answers NotFound and changes nothing.
C6_DeletedStaysDeleted ==
    /\ [](/\ \A id \in deleted_students :
                /\ \A s \in students : s.id # id
                /\ \A a \in academic_details : a.student_id # id
                /\ \A d \in documents : d.student_id # id
          /\ \A id \in deleted_documents : \A d \in documents : d.id # id)
    /\ [][\A r \in Reqs :
            /\ (/\ reqs[r].pc = "idle"
                /\ reqs'[r].op = "get"
                /\ reqs'[r].sid \in deleted_students)
                   => reqs'[r].outcome = StudentNotFound
            /\ (/\ reqs[r].pc = "idle"
                /\ reqs'[r].op = "download"
                /\ reqs'[r].data[1] \in deleted_documents)
                   => reqs'[r].outcome = DocumentNotFound
            /\ (/\ reqs[r].pc = "idle"
                /\ reqs'[r].op = "delete"
                /\ \A s \in students : s.id # reqs'[r].sid)
                   => /\ reqs'[r].pc = "done"
                      /\ reqs'[r].outcome = StudentNotFound
                      /\ store' = store]_vars

\* C6 witness: a student with documents was deleted, and a later get_student of
\* its id was answered NotFound
C6_Witness ==
    /\ deleted_documents # {}
    /\ \E r \in Reqs :
          /\ reqs[r].op = "get"
          /\ reqs[r].pc = "done"
          /\ reqs[r].sid \in deleted_students
          /\ reqs[r].outcome = StudentNotFound

\* C7: a createStudent, updateStudent, deleteStudent or upload that ends in a
\* failure has changed neither the rows nor the files.
C7_NoPartialEffect ==
    \A r \in Reqs :
        (reqs[r].op \in {"create", "update", "delete", "upload"} /\ Failed(reqs[r]))
            => ~reqs[r].effect

-----------------------------------------------------------------------------
(* Claims about get_students and search_students under SpecQuery *)

Range(seq) == {seq[i] : i \in 1..Len(seq)}

Min(a, b) == IF a < b THEN a ELSE b

\* the students a listing ranges over: all of them, or the ones the search joins
\* to an academic row passing its filters
Listed ==
    IF listing.op = "list" THEN {s.id : s \in students}
    ELSE {s.id : s \in {x \in students :
                          \E a \in academic_details :
                              a.student_id = x.id /\ Filtered(a, listing.params)}}

\* C8: with no write in between, the page at skip=0, limit=N and the page at
\* skip=N, limit=N are disjoint and together hold the first 2N students of the
\* listing (all of them when there are fewer), none skipped and none repeated.
C8_PagesDisjointAndContiguous ==
    (/\ listing.op \in {"list", "search"}
     /\ "skip" \in DOMAIN listing.params
     /\ listing.params.skip = 0
     /\ listing.second.status = 200)
        => LET first == listing.first.body
               second == listing.second.body
           IN  /\ Range(first) \cap Range(second) = {}
               /\ Cardinality(Range(first) \cup Range(second))
                     = Min(2 * listing.params.limit, Cardinality(Listed))

\* C9: a listing or search with skip < 0, limit < 1 or limit > 100 is rejected
\* and returns no page; an accepted one returns at most limit students.
C9_PaginationValidated ==
    listing.op \in {"list", "search"} =>
        LET skip == Param(listing.params, "skip", 0)
            limit == Param(listing.params, "limit", 10)
        IN  IF skip < 0 \/ limit < 1 \/ limit > 100
            THEN /\ listing.first.status = 422
                 /\ listing.first.body = <<>>
                 /\ listing.second = NoPage
            ELSE /\ listing.first.status = 200
                 /\ Len(listing.first.body) <= limit
                 /\ Len(listing.second.body) <= limit

\* C9 witness: a search with limit=101 was rejected although the table holds
\* students
C9_Witness ==
    /\ students # {}
    /\ listing.op = "search"
    /\ "limit" \in DOMAIN listing.params
    /\ listing.params.limit = 101
    /\ listing.first.status = 422

\* s contains sub, compared without regard to case
ContainsIgnoreCase(s, sub) ==
    \E i \in 0..(Len(s) - Len(sub)) :
        \A j \in 1..Len(sub) : LowerChar(s[i + j]) = LowerChar(sub[j])

\* C10: a search returns (pagination aside) exactly the students with an academic
\* row that satisfies every supplied filter: college and department as
\* case-insensitive substrings, year as equality for every supplied value.
C10_SearchReturnsExactMatches ==
    (/\ listing.op = "search"
     /\ listing.first.status = 200
     /\ Param(listing.params, "skip", 0) = 0
     /\ Param(listing.params, "limit", 10) >= Cardinality(students))
        => Range(listing.first.body) =
             {s.id : s \in {x \in students :
                 \E a \in academic_details :
                    /\ a.student_id = x.id
                    /\ "college" \in DOMAIN listing.params
                          => ContainsIgnoreCase(a.college_name, listing.params.college)
                    /\ "year" \in DOMAIN listing.params
                          => a.graduation_year = listing.params.year
                    /\ "department" \in DOMAIN listing.params
                          => ContainsIgnoreCase(a.department,
                                                listing.params.department)}}

\* the students with an academic row whose college name contains "iit", compared
\* without regard to case
CollegeContainsIIT ==
    {s.id : s \in {x \in students :
        \E a \in academic_details :
            a.student_id = x.id /\ ContainsIgnoreCase(a.college_name, <<"i", "i", "t">>)}}

\* a search by college="IIT" alone, answered with its whole result
SearchedIIT ==
    /\ listing.op = "search"
    /\ DOMAIN listing.params = {"college"}
    /\ listing.params.college = IIT
    /\ listing.first.status = 200
    /\ Cardinality(students) <= DefaultLimit

\* C11 as stated: a search by college="IIT" returns no student without academic
\* rows, returns every student whose college name contains "iit" (case ignored),
\* and so returns the student of "Indian Institute of Technology Delhi".
C11_SearchIITMatchesIndianInstitute ==
    SearchedIIT =>
        /\ \A id \in Range(listing.first.body) :
               \E a \in academic_details : a.student_id = id
        /\ CollegeContainsIIT \subseteq Range(listing.first.body)
        /\ \A a \in academic_details :
               a.college_name = INDIAN_INSTITUTE_OF_TECHNOLOGY_DELHI
                  => a.student_id \in Range(listing.first.body)

\* C11 amended: a search by college="IIT" returns exactly the students with an
\* academic row whose college name contains "iit" (case ignored), so none without
\* academic rows; "Indian Institute of Technology Delhi" does not contain "iit"
\* and its student is not returned.
C11_SearchIITReturnsSubstringMatches ==
    SearchedIIT =>
        /\ Range(listing.first.body) = CollegeContainsIIT
        /\ \A id \in Range(listing.first.body) :
               \E a \in academic_details : a.student_id = id
        /\ \A a \in academic_details :
               a.college_name = INDIAN_INSTITUTE_OF_TECHNOLOGY_DELHI
                  => a.student_id \notin Range(listing.first.body)

\* C11 witness: the search by "IIT" returned the student of "IIT D" while a
\* student of the Indian Institute and a student without academic rows exist
C11_Witness ==
    /\ SearchedIIT
    /\ listing.first.body # <<>>
    /\ \E a \in academic_details :
          a.college_name = INDIAN_INSTITUTE_OF_TECHNOLOGY_DELHI
    /\ \E s \in students : \A a \in academic_details : a.student_id # s.id

-----------------------------------------------------------------------------
(* Claims about update_student under SpecUpdate *)

\* the step in which request r commits a successful update_student
UpdateCommitted(r) ==
    /\ reqs[r].pc = "update_commit"
    /\ reqs'[r].pc = "done"
    /\ reqs'[r].outcome = Ok

\* C12: a successful updateStudent(id, patch) sets name, email, phone and gender
\* to the patch's value where the patch has the field and leaves them as they
\* were where it has not; without academic details in the patch the academic
\* rows stay as they were. updateStudent of an id that does not exist answers
\* NotFound and changes nothing.
C12_UpdateOverwritesExactlyPatchFields ==
    [][\A r \in Reqs :
          /\ UpdateCommitted(r) =>
                LET patch == reqs[r].data[1]
                IN  /\ \A s \in students : s.id = reqs[r].sid =>
                          \E t \in students' :
                             /\ t.id = s.id
                             /\ \A f \in {"name", "email", "phone", "gender"} :
                                   t[f] = IF f \in DOMAIN patch THEN patch[f]
                                          ELSE s[f]
                    /\ "academic_details" \notin DOMAIN patch
                          => academic_details' = academic_details
          /\ (/\ reqs[r].pc = "idle"
              /\ reqs'[r].op = "update"
              /\ \A s \in students : s.id # reqs'[r].sid)
                 => /\ reqs'[r].pc = "done"
                    /\ reqs'[r].outcome = StudentNotFound
                    /\ store' = store]_vars

\* C12 witness: a patch of the name alone succeeded; the student has the new
\* name and the email, phone, gender and academic row it had
C12_Witness ==
    /\ \E r \in Reqs :
          /\ reqs[r].op = "update"
          /\ reqs[r].pc = "done"
          /\ reqs[r].outcome = Ok
          /\ reqs[r].data[1] = [name |-> "New Name"]
          /\ \E s \in students :
                /\ s.id = reqs[r].sid
                /\ s.name = "New Name"
                /\ s.email = <<"s", s.id>>
                /\ s.phone = "p1"
                /\ s.gender = "Male"
                /\ \E a \in academic_details :
                      a.student_id = s.id /\ a.college_name = IIT_D

\* C13: a successful updateStudent whose patch carries academic details, on a
\* student with an academic row, leaves that row with the sub-object's
\* college_name, department, graduation_year and cgpa, with its backlogs (0 when
\* the sub-object omits it) and with the id and student_id it had; no other
\* academic row is changed or created.
C13_AcademicDetailsFullyReplaced ==
    [][\A r \in Reqs :
          (/\ UpdateCommitted(r)
           /\ "academic_details" \in DOMAIN reqs[r].data[1]
           /\ \E a \in academic_details : a.student_id = reqs[r].sid)
              => LET sub == reqs[r].data[1].academic_details
                 IN  \E a \in academic_details :
                        /\ a.student_id = reqs[r].sid
                        /\ academic_details' = (academic_details \ {a}) \cup
                              {[id |-> a.id, student_id |-> a.student_id,
                                college_name |-> sub.college_name,
                                department |-> sub.department,
                                graduation_year |-> sub.graduation_year,
                                cgpa |-> sub.cgpa,
                                backlogs |-> IF "backlogs" \in DOMAIN sub
                                             THEN sub.backlogs ELSE 0]}]_vars

\* C13 witness: an update with academic details (backlogs omitted) succeeded and
\* the student's row, created with one backlog, now has the new college and none
C13_Witness ==
    \E r \in Reqs :
        /\ reqs[r].op = "update"
        /\ reqs[r].pc = "done"
        /\ reqs[r].outcome = Ok
        /\ "academic_details" \in DOMAIN reqs[r].data[1]
        /\ \E a \in academic_details :
              /\ a.student_id = reqs[r].sid
              /\ a.college_name = DU
              /\ a.backlogs = 0

\* C14: a successful updateStudent whose patch carries academic details, on a
\* student without academic rows, inserts none and leaves the academic rows as
\* they were, and still applies the student fields of the patch; the call
\* fails only where the same patch without academic details would.
C14_AcademicUpdateWithoutRowIsNoOp ==
    [][\A r \in Reqs :
          (/\ reqs[r].pc = "update_commit"
           /\ reqs'[r].pc = "done"
           /\ reqs'[r].outcome \notin {StorageUnavailable, StaleData}
           /\ "academic_details" \in DOMAIN reqs[r].data[1]
           /\ \A a \in academic_details : a.student_id # reqs[r].sid)
              => /\ reqs'[r].outcome = Ok
                 /\ academic_details' = academic_details
                 /\ \A s \in students' : s.id = reqs[r].sid =>
                        s.phone = reqs[r].data[1].phone]_vars

\* C14 witness: such an update succeeded on a student without academic rows, whose
\* phone is now the patch's
C14_Witness ==
    \E r \in Reqs :
        /\ reqs[r].op = "update"
        /\ reqs[r].pc = "done"
        /\ reqs[r].outcome = Ok
        /\ "academic_details" \in DOMAIN reqs[r].data[1]
        /\ \A a \in academic_details : a.student_id # reqs[r].sid
        /\ \E s \in students : s.id = reqs[r].sid /\ s.phone = "p2"

-----------------------------------------------------------------------------
(* Claims about the documents under SpecDocuments *)

\* the step in which request r runs download_document
Downloaded(r) == reqs[r].pc = "idle" /\ reqs'[r].op = "download"

\* C15: a download answers NotFound exactly when no Document row has the id and
\* the student id asked for; it answers with the file-missing outcome, which
\* differs from NotFound, when the row exists and its file does not; it succeeds
\* exactly when the row and the file exist.
C15_DownloadOutcomes ==
    [][\A r \in Reqs : Downloaded(r) =>
          LET found == {d \in documents : /\ d.id = reqs'[r].data[1]
                                          /\ d.student_id = reqs'[r].sid}
              blob == \A d \in found : d.file_path \in files
              outcome == reqs'[r].outcome
          IN  /\ outcome = DocumentNotFound <=> found = {}
              /\ outcome = FileNotFound <=> (found # {} /\ ~blob)
              /\ outcome = Ok <=> (found # {} /\ blob)
              /\ outcome = FileNotFound => outcome.detail # DocumentNotFound.detail
      ]_vars

\* C15 witness: one download was answered with the file-missing outcome, and a
\* download of an existing document through a student that does not own it was
\* answered NotFound
C15_Witness ==
    \E r, q \in Reqs :
        /\ reqs[r].op = "download"
        /\ reqs[r].outcome = FileNotFound
        /\ reqs[q].op = "download"
        /\ reqs[q].outcome = DocumentNotFound
        /\ \E d \in documents : d.id = reqs[q].data[1] /\ d.student_id # reqs[q].sid

\* C16: blob removal in deleteStudent is best-effort: a delete of an existing
\* student is never failed by a blob that is absent; it ends in success with the
\* student's rows removed (a storage failure at the commit, or rows refused by
\* the foreign key, aside).
C16_BlobRemovalBestEffort ==
    \A r \in Reqs :
        (/\ reqs[r].op = "delete"
         /\ reqs[r].pc = "done"
         /\ reqs[r].outcome \notin {StudentNotFound, StorageUnavailable,
                                     ForeignKeyViolation})
            => /\ reqs[r].outcome = Ok
               /\ StudentRows(reqs[r].sid) = {}
               /\ AcademicRows(reqs[r].sid) = {}
               /\ DocumentRows(reqs[r].sid) = {}

\* C17: an upload for a student id that does not exist answers NotFound and
\* writes no Document row and no file; a successful upload adds one Document row
\* of that student per file sent, each with a new id, and leaves every Document
\* row that was there, of the same doc_type or not.
C17_UploadAddsOneDocumentPerFile ==
    [][\A r \in Reqs :
          /\ (/\ reqs[r].pc = "idle"
              /\ reqs'[r].op = "upload"
              /\ \A s \in students : s.id # reqs'[r].sid)
                 => /\ reqs'[r].pc = "done"
                    /\ reqs'[r].outcome = StudentNotFound
                    /\ store' = store
          /\ (/\ reqs[r].pc = "upload_commit"
              /\ reqs'[r].pc = "done"
              /\ reqs'[r].outcome = Ok)
                 => LET added == documents' \ documents
                        upload == reqs[r].data[1]
                    IN  /\ documents \subseteq documents'
                        /\ Cardinality(added)
                              = (IF upload.id_proof = NoFile THEN 1 ELSE 2)
                        /\ \A d \in added :
                              /\ d.student_id = reqs[r].sid
                              /\ \A e \in documents : e.id # d.id
                        /\ \E d \in added : d.doc_type = "resume"
                        /\ upload.id_proof # NoFile
                              => \E d \in added : d.doc_type = "id_proof"]_vars

\* C17 witness: after a second successful upload the student has two documents of
\* type resume
C17_Witness ==
    /\ \E r \in Reqs :
          reqs[r].op = "upload" /\ reqs[r].pc = "done" /\ reqs[r].outcome = Ok
    /\ \E d, e \in documents :
          /\ d.id # e.id
          /\ d.student_id = e.student_id
          /\ d.doc_type = "resume"
          /\ e.doc_type = "resume"

\* C18: id and created_at of a Student never change once create_student has set
\* them: every step of an update_student (whatever its body) and of an upload
\* leaves the id and created_at of every Student as they were, and no step at
\* all changes the created_at of a Student.
C18_IdAndCreatedAtImmutable ==
    [][/\ \A s \in students : \A t \in students' :
             t.id = s.id => t.created_at = s.created_at
       /\ \A r \in Reqs :
             (reqs'[r] # reqs[r] /\ reqs'[r].op \in {"update", "upload"})
                => {<<s.id, s.created_at>> : s \in students'}
                      = {<<s.id, s.created_at>> : s \in students}]_vars

\* C18 witness: an update whose body carried id and created_at succeeded and
\* changed the gender, an upload succeeded, and the student has the id and
\* created_at it was created with
C18_Witness ==
    \E r, q \in Reqs :
        /\ reqs[r].op = "update"
        /\ reqs[r].outcome = Ok
        /\ "created_at" \in DOMAIN reqs[r].data[1]
        /\ reqs[q].op = "upload"
        /\ reqs[q].outcome = Ok
        /\ \E s \in students :
              /\ s.id = reqs[r].sid
              /\ s.gender = "Female"
              /\ s.created_at = s.id

\* the file name f starts with "student_{id}_"
WrittenFor(f, id) ==
    /\ Len(f) >= Len(StudentPrefix(id))
    /\ \A i \in 1..Len(StudentPrefix(id)) : f[i] = StudentPrefix(id)[i]

\* C19: once deleteStudent(id) has succeeded and the requests that raced with it
\* have ended, no file written for that student is left in the upload directory,
\* and no file at all is left without a Document row that refers to it.
C19_NoBlobSurvivesDelete ==
    (\A r \in Reqs : reqs[r].pc \in {"idle", "done"})
        => /\ \A id \in deleted_students : \A f \in files : ~WrittenFor(f, id)
           /\ deleted_students # {}
                 => \A f \in files : \E d \in documents : d.file_path = f

\* the rows of student id and the presence of the files its documents name
Owned(id, S, A, D, F) ==
    <<{s \in S : s.id = id}, {a \in A : a.student_id = id},
      {d \in D : d.student_id = id},
      {d.file_path : d \in {x \in D : x.student_id = id /\ x.file_path \in F}}>>

\* C20: a step of deleteStudent(A), updateStudent(A, patch) or upload(A, files)
\* leaves the Student row, the AcademicDetail and Document rows and the files of
\* the documents of every other student B as they were; the file an upload for A
\* writes is never the file of a document of another student.
C20_OtherStudentsUnaffected ==
    [][\A r \in Reqs :
          (reqs'[r] # reqs[r] /\ reqs'[r].op \in {"delete", "update", "upload"})
             => /\ \A B \in {s.id : s \in students} \ {reqs'[r].sid} :
                      Owned(B, students', academic_details', documents', files')
                         = Owned(B, students, academic_details, documents, files)
                /\ \A f \in files' \ files : WrittenFor(f, reqs'[r].sid)
                /\ reqs'[r].pc \in {"upload_id_proof", "upload_commit"}
                      => \A p \in reqs'[r].snap[1] : \A d \in documents :
                            d.file_path = p.file_path => d.student_id = reqs'[r].sid
      ]_vars

\* C20 witness: student 1 was deleted after both students had uploaded a resume
\* of the same file name, and the document and the file of student 2 are there
C20_Witness ==
    /\ 1 \in deleted_students
    /\ deleted_documents # {}
    /\ \E d \in documents : d.student_id = 2 /\ d.file_path \in files

-----------------------------------------------------------------------------
(* create_dummy_data: the startup routine of a worker process *)

MaxSeeded == 2      \* entries of all_students the routine inserts

DELHI_UNIVERSITY ==
    <<"D", "e", "l", "h", "i", " ", "U", "n", "i", "v", "e", "r", "s", "i", "t", "y">>
JAWAHARLAL_NEHRU_UNIVERSITY ==
    <<"J", "a", "w", "a", "h", "a", "r", "l", "a", "l", " ", "N", "e", "h", "r", "u",
      " ", "U", "n", "i", "v", "e", "r", "s", "i", "t", "y">>
IT == <<"I", "T">>

\* lines 515-554: the first entries of the list (cgpa in tenths)
dummy_students ==
    << [student |-> [name |-> "Rahul Sharma", email |-> "rahul.sharma@email.com",
                     phone |-> "+91-9876543210", gender |-> "Male"],
        academic |-> [college_name |-> INDIAN_INSTITUTE_OF_TECHNOLOGY_DELHI,
                      department |-> CS, graduation_year |-> 2024, cgpa |-> 85,
                      backlogs |-> 0]],
       [student |-> [name |-> "Priya Patel", email |-> "priya.patel@email.com",
                     phone |-> "+91-9876543211", gender |-> "Female"],
        academic |-> [college_name |-> DELHI_UNIVERSITY,
                      department |-> IT, graduation_year |-> 2025, cgpa |-> 91,
                      backlogs |-> 0]],
       [student |-> [name |-> "Amit Kumar", email |-> "amit.kumar@email.com",
                     phone |-> "+91-9876543212", gender |-> "Male"],
        academic |-> [college_name |-> JAWAHARLAL_NEHRU_UNIVERSITY,
                      department |-> ECE, graduation_year |-> 2024, cgpa |-> 78,
                      backlogs |-> 1]] >>

\* line 614, cut to the entries the model inserts
all_students == SubSeq(dummy_students, 1, MaxSeeded)

\* student ids the routines and create_student calls in flight will still draw
IdsInFlight ==
    LET n[S \in SUBSET Reqs] ==
            IF S = {} THEN 0
            ELSE LET r == CHOOSE x \in S : TRUE
                     q == reqs[r]
                 IN  n[S \ {r}]
                       + (IF q.pc = "create_commit_student" THEN 1
                          ELSE IF q.pc \in {"seed_count", "seed_commit"}
                          THEN Len(all_students) + 1 - q.data[1]
                          ELSE IF q.pc = "seed_refresh"
                          THEN Len(all_students) - q.data[1]
                          ELSE 0)
    IN  n[Reqs]

\* the ids two routines racing on an empty table draw
MaxSeedIds == 2 * MaxSeeded

\* line 506: db = SessionLocal(). data[1] is the index of the entry the loop
\* stands at, snap[1] the AcademicDetails objects added and not yet flushed
create_dummy_data(r) ==
    /\ reqs[r].pc = "idle"
    /\ next_student_id + IdsInFlight + Len(all_students) - 1 <= MaxSeedIds
    /\ reqs' = [reqs EXCEPT ![r] =
          [Idle EXCEPT !.op = "seed", !.pc = "seed_count", !.data = <<1>>,
                       !.snap = <<{}>>]]
    /\ UNCHANGED <<store, next_student_id, next_academic_id, next_document_id, now,
                   deleted_students, deleted_documents, listing>>

\* lines 509-511: rows are there: db.close(), return; else on to the loop
create_dummy_data_count(r) ==
    LET q == reqs[r]
    IN  /\ q.pc = "seed_count"
        /\ reqs' = [reqs EXCEPT ![r] =
               IF Cardinality(students) > 0 THEN Idle
               ELSE [q EXCEPT !.pc = "seed_commit"]]
        /\ UNCHANGED <<store, next_student_id, next_academic_id, next_document_id,
                       now, deleted_students, deleted_documents, listing>>

\* line 509: the count query raises. The statement stands before the try of
\* line 616: the exception leaves the routine, no db.close() is run
create_dummy_data_count_raises(r) ==
    LET q == reqs[r]
    IN  /\ q.pc = "seed_count"
        /\ reqs' = [reqs EXCEPT ![r] =
               [q EXCEPT !.pc = "seed_raised", !.outcome = StorageUnavailable]]
        /\ UNCHANGED <<store, next_student_id, next_academic_id, next_document_id,
                       now, deleted_students, deleted_documents, listing>>

\* the rows one flush of the routine inserts for the pending AcademicDetails
SeedAcademicRows(pending) ==
    {[id |-> next_academic_id, student_id |-> p.student_id,
      college_name |-> p.academic.college_name, department |-> p.academic.department,
      graduation_year |-> p.academic.graduation_year, cgpa |-> p.academic.cgpa,
      backlogs |-> p.academic.backlogs] : p \in pending}

\* lines 619-622: db.add(db_student), db.commit(): one transaction inserts the
\* student and the AcademicDetails the previous round added; a refused INSERT
\* raises into the except of line 634
create_dummy_data_commit(r) ==
    LET q == reqs[r]
        student == all_students[q.data[1]].student
        row == [id |-> NewStudentId, name |-> student.name, email |-> student.email,
                phone |-> student.phone, gender |-> student.gender,
                created_at |-> now]
        pending == q.snap[1]
    IN  /\ q.pc = "seed_commit"
        /\ IF /\ EmailUnique(students \cup {row})
              /\ \A p \in pending : ParentExists(p.student_id)
           THEN /\ students' = students \cup {row}
                /\ academic_details' = academic_details \cup SeedAcademicRows(pending)
                /\ next_student_id' = next_student_id + 1
                /\ next_academic_id' = next_academic_id + Cardinality(pending)
                /\ now' = now + 1
                /\ reqs' = [reqs EXCEPT ![r] =
                       [q EXCEPT !.pc = "seed_refresh", !.sid = row.id,
                                 !.snap = <<{}>>, !.effect = TRUE]]
           ELSE /\ reqs' = [reqs EXCEPT ![r] =
                       [q EXCEPT !.pc = "seed_close", !.snap = <<{}>>,
                                 !.outcome = IF EmailUnique(students \cup {row})
                                             THEN ForeignKeyViolation
                                             ELSE UniqueViolation]]
                /\ UNCHANGED <<students, academic_details, next_student_id,
                               next_academic_id, now>>
        /\ UNCHANGED <<documents, files, next_document_id, deleted_students,
                       deleted_documents, listing>>

\* lines 623-630: db.refresh(db_student) raises when the row is gone; else the
\* AcademicDetails of the student is added to the session and the loop goes on
create_dummy_data_refresh(r) ==
    LET q == reqs[r]
        i == q.data[1]
    IN  /\ q.pc = "seed_refresh"
        /\ reqs' = [reqs EXCEPT ![r] =
               IF StudentRows(q.sid) = {}
               THEN [q EXCEPT !.pc = "seed_close", !.outcome = StaleData]
               ELSE [q EXCEPT !.pc = IF i < Len(all_students) THEN "seed_commit"
                                     ELSE "seed_final_commit",
                              !.data = <<i + 1>>,
                              !.snap = <<{[student_id |-> q.sid,
                                           academic |-> all_students[i].academic]}>>]]
        /\ UNCHANGED <<store, next_student_id, next_academic_id, next_document_id,
                       now, deleted_students, deleted_documents, listing>>

\* line 632: the db.commit() after the loop inserts the last AcademicDetails
create_dummy_data_final_commit(r) ==
    LET q == reqs[r]
        pending == q.snap[1]
    IN  /\ q.pc = "seed_final_commit"
        /\ IF \A p \in pending : ParentExists(p.student_id)
           THEN /\ academic_details' = academic_details \cup SeedAcademicRows(pending)
                /\ next_academic_id' = next_academic_id + Cardinality(pending)
                /\ reqs' = [reqs EXCEPT ![r] =
                       [q EXCEPT !.pc = "seed_close", !.snap = <<{}>>,
                                 !.outcome = Ok]]
           ELSE /\ reqs' = [reqs EXCEPT ![r] =
                       [q EXCEPT !.pc = "seed_close", !.snap = <<{}>>,
                                 !.outcome = ForeignKeyViolation]]
                /\ UNCHANGED <<academic_details, next_academic_id>>
        /\ UNCHANGED <<students, documents, files, next_student_id, next_document_id,
                       now, deleted_students, deleted_documents, listing>>

\* lines 634-636: the store raises at a statement inside the try: the except
\* prints and rolls back, nothing of the open transaction is written
create_dummy_data_fails(r) ==
    LET q == reqs[r]
    IN  /\ q.pc \in {"seed_commit", "seed_refresh", "seed_final_commit"}
        /\ reqs' = [reqs EXCEPT ![r] =
               [q EXCEPT !.pc = "seed_close", !.snap = <<{}>>,
                         !.outcome = StorageUnavailable]]
        /\ UNCHANGED <<store, next_student_id, next_academic_id, next_document_id,
                       now, deleted_students, deleted_documents, listing>>

\* lines 637-638: finally: db.close()
create_dummy_data_close(r) ==
    /\ reqs[r].pc = "seed_close"
    /\ reqs' = [reqs EXCEPT ![r] = Idle]
    /\ UNCHANGED <<store, next_student_id, next_academic_id, next_document_id, now,
                   deleted_students, deleted_documents, listing>>

-----------------------------------------------------------------------------
(* the store raises at a query of a handler *)

\* where the next statement of a handler in flight is a query: .first() of the
\* academic rows, the load of student.documents and student.academic_details
QueryPcs == {"update_query_academic", "delete_files"}

\* the query raises (the database cannot be reached): the exception leaves the
\* handler, FastAPI answers 500
query_fails(r) ==
    /\ reqs[r].pc \in QueryPcs
    /\ reqs' = [reqs EXCEPT ![r] = Finish(reqs[r], StorageUnavailable, FALSE)]
    /\ UNCHANGED <<store, next_student_id, next_academic_id, next_document_id, now,
                   deleted_students, deleted_documents, listing>>

\* the same at the first query of a handler: get_db has handed out the session
first_query_fails(r) ==
    /\ reqs[r].pc = "idle"
    /\ reqs' = [reqs EXCEPT ![r] =
          Finish([Idle EXCEPT !.op = "query"], StorageUnavailable, FALSE)]
    /\ UNCHANGED <<store, next_student_id, next_academic_id, next_document_id, now,
                   deleted_students, deleted_documents, listing>>

-----------------------------------------------------------------------------
(* The startup scenario: a worker starts and seeds the table while the other *)
(* serves requests, or starts too                                             *)

\* the student the requests of the scenario address
SeededStudentIds == {1}

NextStartup ==
    \E r \in Reqs :
        \/ create_dummy_data(r)
        \/ create_dummy_data_count(r)
        \/ create_dummy_data_count_raises(r)
        \/ create_dummy_data_commit(r)
        \/ create_dummy_data_refresh(r)
        \/ create_dummy_data_final_commit(r)
        \/ create_dummy_data_fails(r)
        \/ create_dummy_data_close(r)
        \/ \E student \in StudentInputs : create_student(r, student)
        \/ create_student_commit_student(r)
        \/ create_student_commit_academic(r)
        \/ \E sid \in SeededStudentIds : \E patch \in Patches :
              update_student(r, sid, patch)
        \/ update_student_query_academic(r)
        \/ update_student_commit(r)
        \/ \E sid \in SeededStudentIds : delete_student(r, sid)
        \/ delete_student_files(r)
        \/ delete_student_remove(r)
        \/ delete_student_commit(r)
        \/ \E sid \in SeededStudentIds : \E upload \in Uploads :
              upload_documents(r, sid, upload)
        \/ upload_documents_resume(r)
        \/ upload_documents_id_proof(r)
        \/ upload_documents_commit(r)
        \/ commit_fails(r)
        \/ get_db_close(r)

SpecStartup == Init /\ [][NextStartup]_vars

-----------------------------------------------------------------------------
(* The sessions scenario: every way a handler or the seeding routine ends *)

NextSessions ==
    \E r \in Reqs :
        \/ create_dummy_data(r)
        \/ create_dummy_data_count(r)
        \/ create_dummy_data_count_raises(r)
        \/ create_dummy_data_commit(r)
        \/ create_dummy_data_refresh(r)
        \/ create_dummy_data_final_commit(r)
        \/ create_dummy_data_fails(r)
        \/ create_dummy_data_close(r)
        \/ \E student \in StudentInputs : create_student(r, student)
        \/ create_student_commit_student(r)
        \/ create_student_commit_academic(r)
        \/ \E sid \in SeededStudentIds : get_student(r, sid)
        \/ \E sid \in SeededStudentIds : \E patch \in Patches :
              update_student(r, sid, patch)
        \/ update_student_query_academic(r)
        \/ update_student_commit(r)
        \/ \E sid \in SeededStudentIds : delete_student(r, sid)
        \/ delete_student_files(r)
        \/ delete_student_commit(r)
        \/ commit_fails(r)
        \/ query_fails(r)
        \/ first_query_fails(r)
        \/ get_db_close(r)

\* the steps of the request or routine r has in flight: the worker runs the
\* handler to its return or raise, and the dependency to its finally
Continue(r) ==
    \/ create_dummy_data_count(r)
    \/ create_dummy_data_count_raises(r)
    \/ create_dummy_data_commit(r)
    \/ create_dummy_data_refresh(r)
    \/ create_dummy_data_final_commit(r)
    \/ create_dummy_data_fails(r)
    \/ create_dummy_data_close(r)
    \/ create_student_commit_student(r)
    \/ create_student_commit_academic(r)
    \/ update_student_query_academic(r)
    \/ update_student_commit(r)
    \/ delete_student_files(r)
    \/ delete_student_commit(r)
    \/ commit_fails(r)
    \/ query_fails(r)
    \/ get_db_close(r)

\* a handler that has started keeps running
SpecSessions ==
    Init /\ [][NextSessions]_vars /\ \A r \in Reqs : WF_vars(Continue(r))

-----------------------------------------------------------------------------
(* Claims about the startup and sessions scenarios *)

AcademicIds(rows) == {a.id : a \in rows}

\* the step inserts academic row a: a request that has inserted the student of
\* the row, by create_student or by the seeding routine, is the one that steps
InsertedWithItsStudent(a) ==
    \E r \in Reqs :
        /\ reqs'[r] # reqs[r]
        /\ reqs[r].op \in {"create", "seed"}
        /\ reqs[r].pc \in {"create_commit_academic", "seed_commit",
                           "seed_final_commit"}
        /\ reqs[r].sid = a.student_id

\* C21: in every state reachable through createStudent, updateStudent,
\* deleteStudent, upload and startup seeding every Student owns at most one
\* AcademicDetail row; a step inserts at most one row, only by the request that
\* created the row's Student and only for a Student that had none, and no step
\* of updateStudent inserts a row.
C21_AtMostOneAcademicDetailPerStudent ==
    /\ [](\A s \in students : Cardinality(AcademicRows(s.id)) <= 1)
    /\ [][LET inserted == {a \in academic_details' :
                              a.id \notin AcademicIds(academic_details)}
          IN  /\ Cardinality(inserted) <= 1
              /\ \A a \in inserted :
                    /\ AcademicRows(a.student_id) = {}
                    /\ InsertedWithItsStudent(a)
              /\ \A r \in Reqs :
                    (reqs'[r] # reqs[r] /\ reqs[r].op = "update")
                       => inserted = {}
         ]_vars

\* C21 witness: the seeding routine has inserted its students and their rows,
\* and an updateStudent with academic details has succeeded on a seeded student,
\* who owns one row, the row with the patch's college
C21_Witness ==
    \E r, u \in Reqs :
        /\ reqs[r].op = "seed" /\ reqs[r].pc = "seed_close" /\ reqs[r].outcome = Ok
        /\ reqs[u].op = "update" /\ reqs[u].pc = "done" /\ reqs[u].outcome = Ok
        /\ HasAcademic(reqs[u].data[1])
        /\ Cardinality(AcademicRows(reqs[u].sid)) = 1
        /\ \A a \in AcademicRows(reqs[u].sid) :
              a.college_name = reqs[u].data[1].academic_details.college_name
        /\ Cardinality(students) = Len(all_students)

\* get_db line 200, create_dummy_data line 506: the session SessionLocal()
\* returned is open until db.close() has run
SessionOpen(r) == reqs[r].pc # "idle"

\* C22: every database session that is acquired is eventually closed, for the
\* requests handled through get_db and for the startup seeding routine, whether
\* the operation returns, raises an error, or the store raises at a query or a
\* commit.
C22_SessionEventuallyClosed ==
    \A r \in Reqs : SessionOpen(r) ~> ~SessionOpen(r)

====
